---- MODULE Spec2Model ----
(***************************************************************************)
(* try_utils: the TryAsOption trait and the try_return!, try_continue!     *)
(* and try_break! macros of src/lib.rs, together with the call sites the   *)
(* crate's documentation and tests place them in: a function body, a loop  *)
(* body, and the inner body of a two-level loop nest whose outer loop      *)
(* carries a label.                                                        *)
(***************************************************************************)
EXTENDS Integers, Sequences, FiniteSets, TLC

\* Longest sequence of source values a loop iterates over.
MaxLen == 3
\* Largest iteration count of an outer `for _ in 0..N` loop (and the number
\* of passes explored of an outer unconditional `loop`).
MaxN == 2
\* Longest sequence the inner loop of a two-level nest iterates over, and
\* longest sequence of the runs followed to their end under LoopSpec.
MaxInner == 2
\* Iteration count of the loops of the tests and doc examples.
TestIters == 10
\* Payload of the tests and doc examples.
TestPayload == 10
\* Result of the test functions when they run to their end.
NormalResult == 0

Payloads == {1, 2}
Details == {1, 2}

(***************************************************************************)
(* Option<T> and Result<T, E> values.                                      *)
(***************************************************************************)
None == [tag |-> "None"]
Some(x) == [tag |-> "Some", v |-> x]
Ok(x) == [tag |-> "Ok", v |-> x]
Err(e) == [tag |-> "Err", e |-> e]

Options == {None} \cup {Some(x) : x \in Payloads}
Results == {Ok(x) : x \in Payloads} \cup {Err(e) : e \in Details}
Values == Options \cup Results

\* Result::ok, as used by the Result impl.
ok(self) == IF self.tag = "Ok" THEN Some(self.v) ELSE None

\* impl<T> TryAsOption for Option<T>
try_as_option_Option(self) == self

\* A Result impl that keeps the failure detail as a payload.
try_as_option_Result_KeepsDetail(self) ==
    IF self.tag = "Ok" THEN Some(self.v) ELSE Some(self.e)

\* impl<T, E> TryAsOption for Result<T, E>
try_as_option_Result(self) == ok(self)

\* Trait dispatch of `$e.try_as_option()` on the static type of $e.
try_as_option(e) ==
    IF e.tag \in {"Some", "None"} THEN try_as_option_Option(e)
    ELSE try_as_option_Result(e)

(***************************************************************************)
(* Values a function returns, and the $ret expression of try_return!: an   *)
(* unevaluated expression that either produces a value or panics.          *)
(***************************************************************************)
UnitV == [t |-> "unit", n |-> 0]
IntV(n) == [t |-> "int", n |-> n]
NoResult == [t |-> "none", n |-> 0]

UnitExpr == [kind |-> "value", val |-> UnitV]
ValueExpr(n) == [kind |-> "value", val |-> IntV(n)]
PanicExpr == [kind |-> "panic", val |-> NoResult]

FallbackExprs == {ValueExpr(1), ValueExpr(1234), PanicExpr}

(***************************************************************************)
(* The macro arms.  Each yields what the expansion does at the call site:  *)
(* flow "value" (the match evaluates to v), "return" (with the evaluated   *)
(* $ret), "panic" (evaluating $ret panicked), "continue" or "break" (with  *)
(* the label, "none" for the unlabeled forms).  evals counts evaluations   *)
(* of $ret.                                                                *)
(***************************************************************************)
Yield(v, n) == [flow |-> "value", v |-> v, val |-> NoResult, label |-> "none", evals |-> n]
Return(ret, n) ==
    IF ret.kind = "panic"
    THEN [flow |-> "panic", v |-> 0, val |-> NoResult, label |-> "none", evals |-> n]
    ELSE [flow |-> "return", v |-> 0, val |-> ret.val, label |-> "none", evals |-> n]
Continue(label) == [flow |-> "continue", v |-> 0, val |-> NoResult, label |-> label, evals |-> 0]
Break(label) == [flow |-> "break", v |-> 0, val |-> NoResult, label |-> label, evals |-> 0]

\* try_return! as a function call would behave: $ret evaluated before the match.
try_return_Eager(e, ret) ==
    LET o == try_as_option(e) IN
    IF ret.kind = "panic" THEN Return(ret, 1)
    ELSE IF o.tag = "Some" THEN Yield(o.v, 1) ELSE Return(ret, 1)

\* try_return! whose None arm falls through instead of returning $ret.
try_return_FallsThrough(e, ret) ==
    LET o == try_as_option(e) IN
    IF o.tag = "Some" THEN Yield(o.v, 0) ELSE Yield(0, 0)

\* try_return!($e, $ret)
try_return(e, ret) ==
    LET o == try_as_option(e) IN
    IF o.tag = "Some" THEN Yield(o.v, 0) ELSE Return(ret, 1)

\* A one-argument arm that forwards a non-unit fallback.
try_return1_WrongFallback(e) == try_return(e, ValueExpr(1))

\* try_return!($e)
try_return1(e) == try_return(e, UnitExpr)

\* try_continue! whose None arm breaks.
try_continue_Breaks(e) ==
    LET o == try_as_option(e) IN
    IF o.tag = "Some" THEN Yield(o.v, 0) ELSE Break("none")

\* try_continue!($e)
try_continue(e) ==
    LET o == try_as_option(e) IN
    IF o.tag = "Some" THEN Yield(o.v, 0) ELSE Continue("none")

\* A labeled arm that drops its label.
try_continue_labeled_DropsLabel(e, label) == try_continue(e)

\* try_continue!($e, $label)
try_continue_labeled(e, label) ==
    LET o == try_as_option(e) IN
    IF o.tag = "Some" THEN Yield(o.v, 0) ELSE Continue(label)

\* try_break! whose None arm continues.
try_break_Continues(e) ==
    LET o == try_as_option(e) IN
    IF o.tag = "Some" THEN Yield(o.v, 0) ELSE Continue("none")

\* try_break! that also breaks on a present value.
try_break_Always(e) == Break("none")

\* try_break!($e)
try_break(e) ==
    LET o == try_as_option(e) IN
    IF o.tag = "Some" THEN Yield(o.v, 0) ELSE Break("none")

\* A labeled arm that drops its label.
try_break_labeled_DropsLabel(e, label) == try_break(e)

\* try_break!($e, $label)
try_break_labeled(e, label) ==
    LET o == try_as_option(e) IN
    IF o.tag = "Some" THEN Yield(o.v, 0) ELSE Break(label)

(***************************************************************************)
(* Call sites.  cfg describes the code around one directive:               *)
(*                                                                         *)
(*   fn f() -> R {                                                         *)
(*       'outer: for _ in 0..N  |  'outer: loop {      (depth = 2)         *)
(*           count += 1;                                                   *)
(*           'inner: for e in vals  |  'inner: loop {  (depth >= 1)        *)
(*               visited.push(index of e);                                 *)
(*               let x = <directive>(e, ...);                              *)
(*               post.push(x);            // sentinel after the directive  *)
(*           }                                                             *)
(*           outerPost += 1;              // sentinel after the inner loop *)
(*       }                                                                 *)
(*       NormalResult  |  x                                                *)
(*   }                                                                     *)
(*                                                                         *)
(* arm is the macro arm used; label the loop a labeled arm names; ret the  *)
(* $ret of try_return!($e, $ret).  An unconditional `loop` reads vals in   *)
(* order as well and is followed for as long as vals lasts.                *)
(***************************************************************************)
VARIABLES cfg, vals, st, twin

vars == <<cfg, vals, st, twin>>

Cfg(arm, label, ret, depth, outerKind, innerKind, N, tail) ==
    [arm |-> arm, label |-> label, ret |-> ret, depth |-> depth,
     outerKind |-> outerKind, innerKind |-> innerKind, N |-> N, tail |-> tail]

\* The arms with what they are given besides $e.
ArmForms ==
    {<<"return1", "none", UnitExpr>>, <<"continue", "none", UnitExpr>>,
     <<"break", "none", UnitExpr>>,
     <<"continue_l", "inner", UnitExpr>>, <<"continue_l", "outer", UnitExpr>>,
     <<"break_l", "inner", UnitExpr>>, <<"break_l", "outer", UnitExpr>>}
    \cup {<<"return2", "none", r>> : r \in FallbackExprs}

\* The loops around the directive.
\* The loops around the directive, and what the function ends with: a constant
\* or the payload the directive evaluated to.
LoopForms ==
    {<<0, "none", "none", 0, "const">>, <<0, "none", "none", 0, "payload">>,
     <<1, "none", "for", 0, "const">>, <<1, "none", "loop", 0, "const">>}
    \cup {<<2, "for", k, n, "const">> : k \in {"for", "loop"}, n \in 0..MaxN}
    \cup {<<2, "loop", k, MaxN, "const">> : k \in {"for", "loop"}}

\* What compiles: return anywhere, continue and break inside a loop, a label
\* only where a loop of that name encloses the directive, a payload as the
\* function's result only where the function returns an integer.
WellFormed(a, l) ==
    /\ a[1] \in {"continue", "break", "continue_l", "break_l"} => l[1] >= 1
    /\ a[2] = "outer" => l[1] = 2
    /\ l[5] = "payload" => a[1] = "return2"

Configs ==
    {Cfg(a[1], a[2], a[3], l[1], l[2], l[3], l[4], l[5]) :
        <<a, l>> \in {al \in ArmForms \X LoopForms : WellFormed(al[1], al[2])}}

SeqsUpTo(S, n) == UNION {[1..k -> S] : k \in 0..n}

InputsFor(c) ==
    CASE c.depth = 0 -> [1..1 -> Values]
      [] c.depth = 1 -> SeqsUpTo(Values, MaxLen)
      [] OTHER -> SeqsUpTo(Values, MaxInner)

Repeat(v, n) == [i \in 1..n |-> v]

\* The call sites of the crate documentation and of mod tests.
TestSites ==
    { \* docs: my_func1, my_func2, my_func3
      <<Cfg("return2", "none", PanicExpr, 0, "none", "none", 0, "payload"), <<Some(TestPayload)>>>>,
      <<Cfg("return2", "none", ValueExpr(1234), 0, "none", "none", 0, "payload"), <<Some(TestPayload)>>>>,
      <<Cfg("return2", "none", ValueExpr(1234), 0, "none", "none", 0, "payload"), <<None>>>>,
      <<Cfg("return1", "none", UnitExpr, 0, "none", "none", 0, "const"), <<None>>>>,
      \* tests::try_return_none, tests::try_return_some
      <<Cfg("return2", "none", ValueExpr(1), 0, "none", "none", 0, "const"), <<None>>>>,
      <<Cfg("return2", "none", ValueExpr(1), 0, "none", "none", 0, "const"), <<Err(TestPayload)>>>>,
      <<Cfg("return2", "none", ValueExpr(1), 0, "none", "none", 0, "const"), <<Some(TestPayload)>>>>,
      <<Cfg("return2", "none", ValueExpr(1), 0, "none", "none", 0, "const"), <<Ok(TestPayload)>>>>,
      \* tests::try_continue_none, docs
      <<Cfg("continue", "none", UnitExpr, 1, "none", "for", 0, "const"), Repeat(None, TestIters)>>,
      <<Cfg("continue_l", "outer", UnitExpr, 2, "for", "loop", TestIters, "const"), <<None>>>>,
      <<Cfg("continue_l", "outer", UnitExpr, 2, "for", "for", TestIters, "const"), Repeat(None, TestIters)>>,
      \* tests::try_continue_some
      <<Cfg("continue", "none", UnitExpr, 1, "none", "for", 0, "const"), Repeat(Some(TestPayload), TestIters)>>,
      <<Cfg("continue_l", "outer", UnitExpr, 2, "for", "for", TestIters, "const"), Repeat(Some(TestPayload), TestIters)>>,
      \* tests::try_break_none, docs
      <<Cfg("break", "none", UnitExpr, 1, "none", "loop", 0, "const"), <<None>>>>,
      <<Cfg("break_l", "outer", UnitExpr, 2, "loop", "for", MaxN, "const"), Repeat(None, TestIters)>>,
      <<Cfg("break_l", "outer", UnitExpr, 2, "for", "for", TestIters, "const"), Repeat(None, TestIters)>>,
      \* tests::try_break_some
      <<Cfg("break", "none", UnitExpr, 1, "none", "for", 0, "const"), Repeat(Some(TestPayload), TestIters)>>,
      <<Cfg("break_l", "outer", UnitExpr, 2, "for", "for", TestIters, "const"), Repeat(Some(TestPayload), TestIters)>> }

\* State of one run of the function, before its first statement.
Entry ==
    [pc |-> "entry", oi |-> 0, ii |-> 0, count |-> 0, visited |-> <<>>,
     post |-> <<>>, outerPost |-> 0, x |-> 0, result |-> NoResult, evals |-> 0]

AfterInner(c) == IF c.depth = 2 THEN "outer_post" ELSE "tail"

\* The loop a continue or break acts on: the innermost when it has no label.
Target(label) == IF label = "none" THEN "inner" ELSE label

\* The source value the directive is given in the current iteration.
CurVal(vs, s) == vs[s.ii]

\* What the expansion's match does to the run.
Apply(c, s, o) ==
    CASE o.flow = "value" ->
            [s EXCEPT !.x = o.v, !.evals = @ + o.evals, !.pc = "post"]
      [] o.flow = "return" ->
            [s EXCEPT !.result = o.val, !.evals = @ + o.evals, !.pc = "returned"]
      [] o.flow = "panic" ->
            [s EXCEPT !.evals = @ + o.evals, !.pc = "panicked"]
      [] o.flow = "continue" ->
            [s EXCEPT !.pc = IF Target(o.label) = "inner" THEN "inner_head"
                             ELSE "outer_head"]
      [] o.flow = "break" ->
            [s EXCEPT !.pc = IF Target(o.label) = "inner" THEN AfterInner(c)
                             ELSE "tail"]

CallStep(c, s) ==
    [s EXCEPT !.pc = CASE c.depth = 0 -> "directive"
                       [] c.depth = 1 -> "inner_head"
                       [] OTHER -> "outer_head",
              !.ii = IF c.depth = 0 THEN 1 ELSE 0]

OuterHeadEnabled(c, s) == c.outerKind = "for" \/ s.oi < c.N

OuterHeadStep(c, s) ==
    IF s.oi < c.N THEN [s EXCEPT !.oi = @ + 1, !.pc = "outer_pre"]
    ELSE [s EXCEPT !.pc = "tail"]

OuterPreStep(s) == [s EXCEPT !.count = @ + 1, !.ii = 0, !.pc = "inner_head"]

InnerHeadEnabled(c, vs, s) == c.innerKind = "for" \/ s.ii < Len(vs)

InnerHeadStep(c, vs, s) ==
    IF s.ii < Len(vs) THEN [s EXCEPT !.ii = @ + 1, !.pc = "inner_pre"]
    ELSE [s EXCEPT !.pc = AfterInner(c)]

InnerPreStep(s) == [s EXCEPT !.visited = Append(@, s.ii), !.pc = "directive"]

\* The macro arm cfg names, applied to $e.
Directive(c, e) ==
    CASE c.arm = "return1" -> try_return1(e)
      [] c.arm = "return2" -> try_return(e, c.ret)
      [] c.arm = "continue" -> try_continue(e)
      [] c.arm = "continue_l" -> try_continue_labeled(e, c.label)
      [] c.arm = "break" -> try_break(e)
      [] c.arm = "break_l" -> try_break_labeled(e, c.label)

PostStep(c, s) ==
    [s EXCEPT !.post = Append(@, s.x),
              !.pc = IF c.depth = 0 THEN "tail" ELSE "inner_head"]

OuterPostStep(s) == [s EXCEPT !.outerPost = @ + 1, !.pc = "outer_head"]

TailStep(c, s) ==
    [s EXCEPT !.result = CASE c.tail = "payload" -> IntV(s.x)
                           [] c.arm = "return1" -> UnitV
                           [] OTHER -> IntV(NormalResult),
              !.pc = "done"]

\* One step of a run of call site c on inputs vs; s itself where the run has
\* ended or is followed no further.
Step(c, vs, s) ==
    CASE s.pc = "entry" -> CallStep(c, s)
      [] s.pc = "outer_head" /\ OuterHeadEnabled(c, s) -> OuterHeadStep(c, s)
      [] s.pc = "outer_pre" -> OuterPreStep(s)
      [] s.pc = "inner_head" /\ InnerHeadEnabled(c, vs, s) -> InnerHeadStep(c, vs, s)
      [] s.pc = "inner_pre" -> InnerPreStep(s)
      [] s.pc = "directive" -> Apply(c, s, Directive(c, CurVal(vs, s)))
      [] s.pc = "post" -> PostStep(c, s)
      [] s.pc = "outer_post" -> OuterPostStep(s)
      [] s.pc = "tail" -> TailStep(c, s)
      [] OTHER -> s

\* The same inputs written as native Option values.
NativeForm(v) ==
    CASE v.tag = "Ok" -> [tag |-> "Some", v |-> v.v]
      [] v.tag = "Err" -> [tag |-> "None"]
      [] OTHER -> v

NativeInputs(vs) == [i \in DOMAIN vs |-> NativeForm(vs[i])]

\* twin is a second run of the same call site, on the native form of the
\* inputs, taken in lockstep with st.
TwinStep == twin' = Step(cfg, NativeInputs(vals), twin)

Init ==
    /\ \/ cfg \in Configs /\ vals \in InputsFor(cfg)
       \/ \E t \in TestSites : cfg = t[1] /\ vals = t[2]
    /\ st = Entry
    /\ twin = Entry

Call ==
    /\ st.pc = "entry"
    /\ st' = CallStep(cfg, st)
    /\ TwinStep
    /\ UNCHANGED <<cfg, vals>>

OuterHead ==
    /\ st.pc = "outer_head"
    /\ OuterHeadEnabled(cfg, st)
    /\ st' = OuterHeadStep(cfg, st)
    /\ TwinStep
    /\ UNCHANGED <<cfg, vals>>

OuterPre ==
    /\ st.pc = "outer_pre"
    /\ st' = OuterPreStep(st)
    /\ TwinStep
    /\ UNCHANGED <<cfg, vals>>

InnerHead ==
    /\ st.pc = "inner_head"
    /\ InnerHeadEnabled(cfg, vals, st)
    /\ st' = InnerHeadStep(cfg, vals, st)
    /\ TwinStep
    /\ UNCHANGED <<cfg, vals>>

InnerPre ==
    /\ st.pc = "inner_pre"
    /\ st' = InnerPreStep(st)
    /\ TwinStep
    /\ UNCHANGED <<cfg, vals>>

TryReturn1 ==
    /\ st.pc = "directive"
    /\ cfg.arm = "return1"
    /\ st' = Apply(cfg, st, try_return1(CurVal(vals, st)))
    /\ TwinStep
    /\ UNCHANGED <<cfg, vals>>

TryReturn2 ==
    /\ st.pc = "directive"
    /\ cfg.arm = "return2"
    /\ st' = Apply(cfg, st, try_return(CurVal(vals, st), cfg.ret))
    /\ TwinStep
    /\ UNCHANGED <<cfg, vals>>

TryContinue ==
    /\ st.pc = "directive"
    /\ cfg.arm = "continue"
    /\ st' = Apply(cfg, st, try_continue(CurVal(vals, st)))
    /\ TwinStep
    /\ UNCHANGED <<cfg, vals>>

TryContinueLabeled ==
    /\ st.pc = "directive"
    /\ cfg.arm = "continue_l"
    /\ st' = Apply(cfg, st, try_continue_labeled(CurVal(vals, st), cfg.label))
    /\ TwinStep
    /\ UNCHANGED <<cfg, vals>>

TryBreak ==
    /\ st.pc = "directive"
    /\ cfg.arm = "break"
    /\ st' = Apply(cfg, st, try_break(CurVal(vals, st)))
    /\ TwinStep
    /\ UNCHANGED <<cfg, vals>>

TryBreakLabeled ==
    /\ st.pc = "directive"
    /\ cfg.arm = "break_l"
    /\ st' = Apply(cfg, st, try_break_labeled(CurVal(vals, st), cfg.label))
    /\ TwinStep
    /\ UNCHANGED <<cfg, vals>>

Post ==
    /\ st.pc = "post"
    /\ st' = PostStep(cfg, st)
    /\ TwinStep
    /\ UNCHANGED <<cfg, vals>>

OuterPost ==
    /\ st.pc = "outer_post"
    /\ st' = OuterPostStep(st)
    /\ TwinStep
    /\ UNCHANGED <<cfg, vals>>

FnTail ==
    /\ st.pc = "tail"
    /\ st' = TailStep(cfg, st)
    /\ TwinStep
    /\ UNCHANGED <<cfg, vals>>

Next ==
    \/ Call
    \/ OuterHead
    \/ OuterPre
    \/ InnerHead
    \/ InnerPre
    \/ TryReturn1
    \/ TryReturn2
    \/ TryContinue
    \/ TryContinueLabeled
    \/ TryBreak
    \/ TryBreakLabeled
    \/ Post
    \/ OuterPost
    \/ FnTail

Spec == Init /\ [][Next]_vars

\* The call sites of the loop directives, try_continue! and try_break!.  A
\* sequential program keeps running until it ends: weak fairness of its steps.
InitLoops ==
    /\ \/ cfg \in Configs /\ vals \in SeqsUpTo(Values, MaxInner)
       \/ \E t \in TestSites : cfg = t[1] /\ vals = t[2]
    /\ cfg.arm \in {"continue", "continue_l", "break", "break_l"}
    /\ st = Entry
    /\ twin = Entry

NextLoops ==
    \/ Call
    \/ OuterHead
    \/ OuterPre
    \/ InnerHead
    \/ InnerPre
    \/ TryContinue
    \/ TryContinueLabeled
    \/ TryBreak
    \/ TryBreakLabeled
    \/ Post
    \/ OuterPost
    \/ FnTail

LoopSpec == InitLoops /\ [][NextLoops]_vars /\ WF_vars(NextLoops)

(***************************************************************************)
(* Vocabulary of the properties.                                           *)
(***************************************************************************)
IsPresent(v) == v.tag \in {"Some", "Ok"}
IsAbsent(v) == v.tag \in {"None", "Err"}
PayloadOf(v) == v.v

AllPresent(vs) == \A i \in DOMAIN vs : IsPresent(vs[i])
AllAbsent(vs) == \A i \in DOMAIN vs : IsAbsent(vs[i])

Ended == st.pc \in {"done", "returned", "panicked"}
AtDirective == st.pc = "directive"
Cur == CurVal(vals, st)

Indices(n) == [i \in 1..n |-> i]
PayloadSeq(vs) == [i \in DOMAIN vs |-> PayloadOf(vs[i])]

\* Repetitions of seq, n times over.
RECURSIVE Times(_, _)
Times(seq, n) == IF n = 0 THEN <<>> ELSE Times(seq, n - 1) \o seq

\* The payloads of the present elements among the first k of vs, in order.
RECURSIVE PresentPayloads(_, _)
PresentPayloads(vs, k) ==
    IF k = 0 THEN <<>>
    ELSE IF IsPresent(vs[k]) THEN Append(PresentPayloads(vs, k - 1), PayloadOf(vs[k]))
    ELSE PresentPayloads(vs, k - 1)

\* Index of the first absent element of vs, Len(vs) + 1 when there is none.
RECURSIVE FirstAbsentFrom(_, _)
FirstAbsentFrom(vs, i) ==
    IF i > Len(vs) \/ IsAbsent(vs[i]) THEN i ELSE FirstAbsentFrom(vs, i + 1)
FirstAbsent(vs) == FirstAbsentFrom(vs, 1)

NormalOutcome ==
    CASE cfg.tail = "payload" -> IntV(st.x)
      [] cfg.arm = "return1" -> UnitV
      [] OTHER -> IntV(NormalResult)

(***************************************************************************)
(* C1.  On Some(x) or Ok(x) every directive, whatever its arm, fallback or *)
(* label, evaluates to exactly x and diverts nothing: the step changes     *)
(* only x and moves on to the statement after the directive; and a run     *)
(* whose source values are all present never returns early, ends with the  *)
(* function's normal result, and has taken every `for` loop around the     *)
(* directive through all of its iterations.                                *)
(***************************************************************************)
C1_PresentStep ==
    (AtDirective /\ IsPresent(Cur))
        => st' = [st EXCEPT !.pc = "post", !.x = PayloadOf(Cur)]

C1_PresentRun ==
    (AllPresent(vals) /\ Ended) =>
        /\ st.pc = "done"
        /\ st.result = NormalOutcome
        /\ st.evals = 0
        /\ cfg.depth = 0 => st.post = PayloadSeq(vals)
        /\ (cfg.depth = 1 /\ cfg.innerKind = "for") =>
              /\ st.visited = Indices(Len(vals))
              /\ st.post = PayloadSeq(vals)
        /\ (cfg.depth = 2 /\ cfg.outerKind = "for" /\ cfg.innerKind = "for") =>
              /\ st.count = cfg.N
              /\ st.outerPost = cfg.N
              /\ st.visited = Times(Indices(Len(vals)), cfg.N)
              /\ st.post = Times(PayloadSeq(vals), cfg.N)

C1_PresentYieldsPayload == [][C1_PresentStep]_vars /\ []C1_PresentRun

\* A nest whose labeled continue names the outer loop ran to its end on
\* present values of both source types.
C1_Witness ==
    /\ st.pc = "done"
    /\ cfg.arm = "continue_l" /\ cfg.label = "outer" /\ cfg.N = 2
    /\ Len(vals) = 2 /\ vals[1].tag = "Ok" /\ vals[2].tag = "Some"
    /\ st.count = 2 /\ Len(st.post) = 4

(***************************************************************************)
(* C2.  try_return!(value, f) on an absent value (None or Err(_)): the     *)
(* function ends in that step with result f, whatever value f is, and      *)
(* nothing after the directive runs: the run has ended, the statement      *)
(* after the directive has not run for that value.  A function ending with *)
(* the payload yields the payload of a present value (10 for Some(10),     *)
(* 1234 for None with fallback 1234).                                      *)
(***************************************************************************)
C2_AbsentStep ==
    (AtDirective /\ cfg.arm = "return2" /\ cfg.ret.kind = "value" /\ IsAbsent(Cur))
        => st' = [st EXCEPT !.pc = "returned", !.result = cfg.ret.val, !.evals = @ + 1]

C2_Returned ==
    (cfg.arm = "return2" /\ st.pc = "returned") =>
        /\ IsAbsent(Cur)
        /\ st.result = cfg.ret.val
        /\ ~ ENABLED Next
        /\ cfg.depth = 0 => st.post = <<>>
        /\ cfg.depth >= 1 => Len(st.post) = Len(st.visited) - 1
        /\ cfg.depth = 1 =>
              /\ st.ii = FirstAbsent(vals)
              /\ st.post = PresentPayloads(vals, st.ii - 1)

C2_Example ==
    (cfg.arm = "return2" /\ cfg.depth = 0 /\ cfg.tail = "payload" /\ Ended
        /\ cfg.ret = ValueExpr(1234)) =>
        st.result = IF IsPresent(vals[1]) THEN IntV(PayloadOf(vals[1])) ELSE IntV(1234)

C2_ReturnsFallback == [][C2_AbsentStep]_vars /\ [](C2_Returned /\ C2_Example)

\* The function returned 1234 on an Err in the second iteration of a loop.
C2_Witness ==
    /\ cfg.arm = "return2" /\ st.pc = "returned" /\ st.result = IntV(1234)
    /\ cfg.depth = 1 /\ st.ii = 2 /\ vals[2].tag = "Err" /\ Len(st.post) = 1

(***************************************************************************)
(* C3.  try_return!(value) is try_return!(value, ()): on an absent value   *)
(* the function ends in that step with the unit result and nothing after   *)
(* the directive runs; on a present value the directive yields the payload *)
(* and the rest of the function runs.                                      *)
(***************************************************************************)
C3_Step ==
    (AtDirective /\ cfg.arm = "return1") =>
        st' = IF IsAbsent(Cur)
              THEN [st EXCEPT !.pc = "returned", !.result = UnitV, !.evals = @ + 1]
              ELSE [st EXCEPT !.pc = "post", !.x = PayloadOf(Cur)]

C3_Ended ==
    (cfg.arm = "return1" /\ Ended) =>
        /\ st.result = UnitV
        /\ st.pc = "returned" => (IsAbsent(Cur) /\ ~ ENABLED Next)
        /\ (cfg.depth = 0 /\ st.pc = "returned") => st.post = <<>>
        /\ (cfg.depth = 0 /\ st.pc = "done") =>
              (IsPresent(Cur) /\ st.post = <<PayloadOf(Cur)>>)

C3_ReturnsUnit == [][C3_Step]_vars /\ []C3_Ended

\* my_func3(None): returned unit, the statement after the directive not run.
C3_Witness ==
    /\ cfg.arm = "return1" /\ cfg.depth = 0 /\ st.pc = "returned"
    /\ vals = <<None>> /\ st.result = UnitV /\ st.post = <<>>

(***************************************************************************)
(* C4.  An unlabeled try_continue! on an absent value moves straight to    *)
(* the head of the innermost loop and changes nothing else.  In a `for`    *)
(* loop of N iterations whose values are all absent the statements before  *)
(* the directive run exactly N times, once per element in order, the       *)
(* statement after it never runs, and the loop is left through its own     *)
(* exit test after the N-th iteration (in a nest: on every pass of the     *)
(* outer loop, whose statements after the inner loop then run).            *)
(***************************************************************************)
C4_AbsentStep ==
    (AtDirective /\ cfg.arm = "continue" /\ IsAbsent(Cur))
        => st' = [st EXCEPT !.pc = "inner_head"]

C4_Run ==
    (cfg.arm = "continue" /\ AllAbsent(vals)) =>
        /\ st.post = <<>>
        /\ st.pc # "post"
        /\ ~ (st.pc \in {"returned", "panicked"})
        /\ (cfg.depth = 1 /\ cfg.innerKind = "for" /\ st.pc \in {"tail", "done"}) =>
              /\ st.visited = Indices(Len(vals))
              /\ st.ii = Len(vals)
        /\ (cfg.depth = 2 /\ cfg.innerKind = "for" /\ st.pc = "outer_post") =>
              /\ st.visited = Times(Indices(Len(vals)), st.count)
              /\ st.ii = Len(vals)
              /\ st.outerPost = st.count - 1
        /\ (cfg.depth = 2 /\ cfg.innerKind = "for" /\ cfg.outerKind = "for"
                /\ st.pc \in {"tail", "done"}) =>
              /\ st.count = cfg.N
              /\ st.outerPost = cfg.N
              /\ st.visited = Times(Indices(Len(vals)), cfg.N)

C4_Terminates ==
    (cfg.arm = "continue" /\ cfg.innerKind = "for" /\ cfg.outerKind # "loop")
        ~> (st.pc = "done")

C4_ContinueKeepsCount == [][C4_AbsentStep]_vars /\ []C4_Run /\ C4_Terminates

\* tests::try_continue_none: ten iterations, count = 10, sentinel not reached.
C4_Witness ==
    /\ cfg.arm = "continue" /\ cfg.depth = 1 /\ cfg.innerKind = "for"
    /\ vals = Repeat(None, TestIters)
    /\ st.pc = "done" /\ Len(st.visited) = TestIters /\ st.post = <<>>

(***************************************************************************)
(* C5.  An unlabeled try_break! on an absent value leaves the innermost    *)
(* loop in that step: control is at the statement after the loop, nothing  *)
(* else has changed, so the statement after the directive has not run and  *)
(* no further iteration of that loop has started.  A loop left this way    *)
(* has run the body for the elements up to and including the first absent  *)
(* one only.  An unconditional `loop` whose first value is absent ends in  *)
(* its first iteration and the function runs on to its end.                *)
(***************************************************************************)
C5_AbsentStep ==
    (AtDirective /\ cfg.arm = "break" /\ IsAbsent(Cur))
        => st' = [st EXCEPT !.pc = AfterInner(cfg)]

C5_LoopLeft ==
    (cfg.arm = "break" /\ cfg.depth = 1 /\ st.pc \in {"tail", "done"}) =>
        /\ st.visited = Indices(IF FirstAbsent(vals) > Len(vals) THEN Len(vals)
                                ELSE FirstAbsent(vals))
        /\ st.post = PresentPayloads(vals, FirstAbsent(vals) - 1)
        /\ st.ii = Len(st.visited)
        /\ (cfg.innerKind = "loop" /\ Len(vals) > 0 /\ IsAbsent(vals[1])) =>
              (st.visited = <<1>> /\ st.post = <<>>)

C5_NestLeft ==
    (cfg.arm = "break" /\ cfg.depth = 2 /\ st.pc = "outer_post") =>
        /\ st.ii = (IF FirstAbsent(vals) > Len(vals) THEN Len(vals)
                    ELSE FirstAbsent(vals))
        /\ st.visited = Times(Indices(st.ii), st.count)
        /\ st.post = Times(PresentPayloads(vals, FirstAbsent(vals) - 1), st.count)

C5_Terminates ==
    (cfg.arm = "break" /\ cfg.depth = 1 /\ ~ AllPresent(vals)) ~> (st.pc = "done")

C5_BreakEndsLoop ==
    [][C5_AbsentStep]_vars /\ [](C5_LoopLeft /\ C5_NestLeft) /\ C5_Terminates

\* tests::try_break_none: `loop { try_break!(None); panic!() }` has ended.
C5_Witness ==
    /\ cfg.arm = "break" /\ cfg.depth = 1 /\ cfg.innerKind = "loop"
    /\ vals = <<None>>
    /\ st.pc = "done" /\ st.visited = <<1>> /\ st.post = <<>>

(***************************************************************************)
(* C6.  In a two-level nest whose outer loop is a labeled `for` of N       *)
(* iterations and whose inner body issues try_continue!(absent, 'outer),   *)
(* the step goes to the head of the outer loop, not of the inner one.  The *)
(* outer body starts exactly N times, every pass enters the inner body     *)
(* once and gets as far as the directive, neither the statement after the  *)
(* directive nor the one after the inner loop ever runs, and the function  *)
(* runs to its end, also when the inner loop is an unconditional `loop`.   *)
(***************************************************************************)
C6_Case ==
    /\ cfg.arm = "continue_l" /\ cfg.label = "outer" /\ cfg.outerKind = "for"
    /\ Len(vals) > 0 /\ IsAbsent(vals[1])

C6_AbsentStep ==
    (AtDirective /\ cfg.arm = "continue_l" /\ cfg.label = "outer" /\ IsAbsent(Cur))
        => st' = [st EXCEPT !.pc = "outer_head"]

C6_Run ==
    C6_Case =>
        /\ st.post = <<>>
        /\ st.outerPost = 0
        /\ ~ (st.pc \in {"post", "outer_post", "returned", "panicked"})
        /\ st.ii <= 1
        /\ st.visited = Times(<<1>>, Len(st.visited))
        /\ Len(st.visited) = (IF st.pc \in {"inner_head", "inner_pre"}
                              THEN st.count - 1 ELSE st.count)
        /\ st.count = (IF st.pc = "outer_pre" THEN st.oi - 1 ELSE st.oi)
        /\ st.pc \in {"tail", "done"} => st.count = cfg.N

C6_Terminates == C6_Case ~> (st.pc = "done" /\ st.count = cfg.N)

C6_ContinueOuter == [][C6_AbsentStep]_vars /\ []C6_Run /\ C6_Terminates

\* tests::try_continue_none, labeled part: count = 10 after the nest.
C6_Witness ==
    /\ C6_Case /\ cfg.N = TestIters /\ cfg.innerKind = "loop"
    /\ st.pc = "done" /\ st.count = TestIters /\ Len(st.visited) = TestIters

(***************************************************************************)
(* C7.  In a two-level nest whose inner body issues                        *)
(* try_break!(absent, 'outer), the step leaves the outer loop: control is  *)
(* at the statement after the nest.  The outer and the inner body have     *)
(* each been entered exactly once, neither the statement after the         *)
(* directive nor the one after the inner loop has run, and the function    *)
(* runs to its end, also when the outer loop is an unconditional `loop`.   *)
(***************************************************************************)
C7_Case ==
    /\ cfg.arm = "break_l" /\ cfg.label = "outer"
    /\ cfg.N > 0 /\ Len(vals) > 0 /\ IsAbsent(vals[1])

C7_AbsentStep ==
    (AtDirective /\ cfg.arm = "break_l" /\ cfg.label = "outer" /\ IsAbsent(Cur))
        => st' = [st EXCEPT !.pc = "tail"]

C7_Run ==
    C7_Case =>
        /\ st.post = <<>>
        /\ st.outerPost = 0
        /\ ~ (st.pc \in {"post", "outer_post", "returned", "panicked"})
        /\ st.count <= 1 /\ st.oi <= 1
        /\ Len(st.visited) <= 1
        /\ st.pc \in {"tail", "done"} => (st.count = 1 /\ st.visited = <<1>>)

C7_Terminates == C7_Case ~> (st.pc = "done" /\ st.count = 1)

C8_Normalized ==
    AtDirective =>
        try_as_option(Cur) = (CASE Cur.tag = "Some" -> Some(Cur.v)
                                [] Cur.tag = "None" -> None
                                [] Cur.tag = "Ok" -> Some(Cur.v)
                                [] Cur.tag = "Err" -> None)

C8_ResultAsOption == C8_Normalized /\ st = twin

\* A run that met Ok(x) and then Err(2) has ended as its twin on Some(x), None.
C8_Witness ==
    /\ Ended /\ st = twin
    /\ Len(vals) >= 2 /\ vals[1].tag = "Ok" /\ vals[2] = Err(2)
    /\ st.ii = 2 /\ NativeInputs(vals) # vals

(***************************************************************************)
(* C9.  The $ret of try_return!(value, $ret) is evaluated when, and only   *)
(* when, the value is absent, and then once: no evaluation has happened    *)
(* while the function has not returned through the directive, exactly one  *)
(* when it has; on a present value a $ret that panics does not panic and   *)
(* the function carries on.                                                *)
(***************************************************************************)
C9_LazyFallback ==
    cfg.arm = "return2" =>
        /\ st.pc \in {"returned", "panicked"} => (IsAbsent(Cur) /\ st.evals = 1)
        /\ ~ (st.pc \in {"returned", "panicked"}) => st.evals = 0
        /\ st.pc = "post" => (IsPresent(Cur) /\ st.x = PayloadOf(Cur))
        /\ st.pc = "panicked" => cfg.ret = PanicExpr
        /\ (cfg.ret = PanicExpr /\ st.pc = "returned") => FALSE
        /\ (AllPresent(vals) /\ Ended) => st.pc = "done"

\* my_func1(Some(10)): the panicking fallback was never evaluated.
C9_Witness ==
    /\ cfg.arm = "return2" /\ cfg.ret = PanicExpr /\ cfg.depth = 0
    /\ vals = <<Some(TestPayload)>>
    /\ st.pc = "done" /\ st.evals = 0 /\ st.result = IntV(TestPayload)

(***************************************************************************)
(* C10.  In a loop over a sequence of values, a body guarded by an         *)
(* unlabeled try_continue! has, at every point, run the statement after    *)
(* the directive for exactly the present elements among those it has       *)
(* finished with, in order, and once left has visited every element once;  *)
(* a body guarded by an unlabeled try_break! has run it for the longest    *)
(* all-present prefix and has visited nothing after the first absent       *)
(* element.                                                                *)
(***************************************************************************)
\* Elements whose iteration is over.
C10_Finished == IF st.pc \in {"inner_pre", "directive", "post"} THEN st.ii - 1 ELSE st.ii

C10_Continue ==
    (cfg.arm = "continue" /\ cfg.depth = 1) =>
        /\ st.post = PresentPayloads(vals, C10_Finished)
        /\ st.visited = Indices(IF st.pc = "inner_pre" THEN st.ii - 1 ELSE st.ii)
        /\ st.pc \in {"tail", "done"} =>
              (st.visited = Indices(Len(vals)) /\ st.post = PresentPayloads(vals, Len(vals)))

C10_Break ==
    (cfg.arm = "break" /\ cfg.depth = 1) =>
        /\ st.ii <= FirstAbsent(vals)
        /\ st.ii <= Len(vals)
        /\ st.post = PresentPayloads(vals, IF C10_Finished < FirstAbsent(vals)
                                          THEN C10_Finished ELSE FirstAbsent(vals) - 1)
        /\ Len(st.post) < FirstAbsent(vals)
        /\ st.visited = Indices(IF st.pc = "inner_pre" THEN st.ii - 1 ELSE st.ii)
        /\ st.pc \in {"tail", "done"} =>
              /\ st.post = [i \in 1..(FirstAbsent(vals) - 1) |-> PayloadOf(vals[i])]
              /\ Len(st.visited) = (IF FirstAbsent(vals) > Len(vals) THEN Len(vals)
                                    ELSE FirstAbsent(vals))

C10_PerValueDecision == C10_Continue /\ C10_Break

\* A continue loop over present, absent, present has ended with both payloads.
C10_Witness ==
    /\ cfg.arm = "continue" /\ cfg.depth = 1 /\ st.pc = "done"
    /\ vals = <<Ok(1), Err(1), Some(2)>>
    /\ st.post = <<1, 2>> /\ st.visited = <<1, 2, 3>>

\* A break loop over present, absent, present has ended after the second element.
C10_WitnessBreak ==
    /\ cfg.arm = "break" /\ cfg.depth = 1 /\ st.pc = "done"
    /\ vals = <<Some(1), None, Some(2)>>
    /\ st.post = <<1>> /\ st.visited = <<1, 2>>

====
